---------------------------- MODULE Spec2Model ----------------------------
(***************************************************************************)
(* A model of the usgs_nwis client (src/usgs_nwis/usgs_nwis.py): the       *)
(* query classes BaseQuery, SitesQuery and DataBySites, the request URL    *)
(* they build, the raw response they cache and the two parsers (JSON and   *)
(* tab-delimited rdb) they apply to it.                                    *)
(*                                                                         *)
(* Python values are tagged records, the tag being the runtime type that   *)
(* isinstance / truthiness / len() look at.  A text (Python str) is a      *)
(* sequence over an alphabet whose letters are the characters the code and *)
(* the parsers treat specially (newline, tab, '#', ',', '&', '=', the JSON *)
(* punctuation, ...), each standing alone, and words, each word standing   *)
(* for a fixed non-empty run of ordinary characters.  A dict is the        *)
(* sequence of its (key, value) items in insertion order, keys unique.     *)
(***************************************************************************)
EXTENDS Naturals, Sequences, FiniteSets, TLC

VARIABLES
    cls,            \* class of the query object, "none" before construction
    major_filter,   \* self.major_filter
    _format,        \* self._format
    base_url,       \* self.base_url
    data,           \* self.data
    raw_data,       \* self.raw_data
    request_url,    \* self.request_url (Unset until _get_raw_data runs)
    sites,          \* SitesQuery.sites
    core_data,      \* DataBySites.core_data
    last,           \* the last call: its name, what it returned or raised
    fetches,        \* requests this object has issued (calls of urlopen)
    delivered,      \* responses the server has delivered to this object
    invalidated,    \* the caller has reset raw_data since construction
    calls,          \* number of method calls made so far
    core_calls      \* the last two make_core_data calls, latest first:
                    \* the data each read and what it returned or raised

vars == <<cls, major_filter, _format, base_url, data, raw_data, request_url,
          sites, core_data, last, fetches, delivered, invalidated, calls,
          core_calls>>

-----------------------------------------------------------------------------
(* Python values *)

None == [t |-> "None"]

Str(s) == [t |-> "str", v |-> s]

Int(n) == [t |-> "int", v |-> n]

List(s) == [t |-> "list", v |-> s]

Dict(items) == [t |-> "dict", v |-> items]

\* An attribute that has not been assigned yet (reading it is an AttributeError).
Unset == [t |-> "unset"]

\* `not x`: None, '', 0, [] and {} are falsy.
Falsy(x) ==
    \/ x.t = "None"
    \/ x.t = "int" /\ x.v = 0
    \/ x.t \in {"str", "list", "dict"} /\ Len(x.v) = 0

-----------------------------------------------------------------------------
(* dict operations; d and e are item sequences *)

DictKeys(d) == [i \in 1..Len(d) |-> d[i][1]]

DictHas(d, k) == \E i \in 1..Len(d) : d[i][1] = k

DictGet(d, k) == d[CHOOSE i \in 1..Len(d) : d[i][1] = k][2]

\* d[k] = v: an existing key keeps its position, a new key is appended.
DictSet(d, k, v) ==
    IF DictHas(d, k)
    THEN [i \in 1..Len(d) |-> IF d[i][1] = k THEN <<k, v>> ELSE d[i]]
    ELSE Append(d, <<k, v>>)

RECURSIVE DictUpdate(_, _)
\* d.update(e)
DictUpdate(d, e) ==
    IF e = <<>> THEN d
    ELSE DictUpdate(DictSet(d, Head(e)[1], Head(e)[2]), Tail(e))

-----------------------------------------------------------------------------
(* text operations *)

RECURSIVE Concat(_)
\* ''.join(parts)
Concat(parts) ==
    IF parts = <<>> THEN <<>> ELSE Head(parts) \o Concat(Tail(parts))

RECURSIVE Join(_, _)
\* sep.join(parts)
Join(sep, parts) ==
    IF parts = <<>> THEN <<>>
    ELSE IF Len(parts) = 1 THEN parts[1]
    ELSE parts[1] \o sep \o Join(sep, Tail(parts))

RECURSIVE SplitFrom(_, _, _, _)
SplitFrom(txt, sep, i, cur) ==
    IF i > Len(txt) THEN <<cur>>
    ELSE IF txt[i] = sep THEN <<cur>> \o SplitFrom(txt, sep, i + 1, <<>>)
    ELSE SplitFrom(txt, sep, i + 1, Append(cur, txt[i]))

\* txt.split(sep) for a one-character separator: ''.split(sep) is [''].
Split(txt, sep) == SplitFrom(txt, sep, 1, <<>>)

Digit(n) == <<"0", "1", "2", "3", "4", "5", "6", "7", "8", "9">>[n + 1]

RECURSIVE IntStr(_)
\* str(n) for a natural number
IntStr(n) == IF n < 10 THEN <<Digit(n)>> ELSE Append(IntStr(n \div 10), Digit(n % 10))

\* str(x) for the scalars that occur as parameter values and list elements
PyStr(x) ==
    CASE x.t = "str" -> x.v
      [] x.t = "int" -> IntStr(x.v)
      [] x.t = "None" -> <<"None">>

-----------------------------------------------------------------------------
(* json.loads, on the subset of JSON the service's envelopes use: objects, *)
(* arrays, strings and null, without insignificant whitespace.  A result   *)
(* is [ok, val, nxt]: nxt is the position after the value read.            *)

JsonFail == [ok |-> FALSE, val |-> None, nxt |-> 0]

RECURSIVE CloseQuote(_, _)
\* position of the first '"' at or after i, 0 if there is none
CloseQuote(txt, i) ==
    IF i > Len(txt) THEN 0
    ELSE IF txt[i] = "\"" THEN i
    ELSE CloseQuote(txt, i + 1)

\* a string literal starting at i
ParseString(txt, i) ==
    IF i > Len(txt) \/ txt[i] # "\"" THEN JsonFail
    ELSE LET j == CloseQuote(txt, i + 1) IN
         IF j = 0 THEN JsonFail
         ELSE [ok |-> TRUE, val |-> Str(SubSeq(txt, i + 1, j - 1)), nxt |-> j + 1]

RECURSIVE ParseValue(_, _)
RECURSIVE ParseElements(_, _, _)
RECURSIVE ParseMembers(_, _, _)

ParseValue(txt, i) ==
    IF i > Len(txt) THEN JsonFail
    ELSE CASE txt[i] = "\"" -> ParseString(txt, i)
           [] txt[i] = "null" -> [ok |-> TRUE, val |-> None, nxt |-> i + 1]
           [] txt[i] = "[" ->
                IF i + 1 <= Len(txt) /\ txt[i + 1] = "]"
                THEN [ok |-> TRUE, val |-> List(<<>>), nxt |-> i + 2]
                ELSE ParseElements(txt, i + 1, <<>>)
           [] txt[i] = "{" ->
                IF i + 1 <= Len(txt) /\ txt[i + 1] = "}"
                THEN [ok |-> TRUE, val |-> Dict(<<>>), nxt |-> i + 2]
                ELSE ParseMembers(txt, i + 1, <<>>)
           [] OTHER -> JsonFail

\* the elements of an array from position i on, acc being those read so far
ParseElements(txt, i, acc) ==
    LET r == ParseValue(txt, i) IN
    IF ~r.ok \/ r.nxt > Len(txt) THEN JsonFail
    ELSE IF txt[r.nxt] = "," THEN ParseElements(txt, r.nxt + 1, Append(acc, r.val))
    ELSE IF txt[r.nxt] = "]"
         THEN [ok |-> TRUE, val |-> List(Append(acc, r.val)), nxt |-> r.nxt + 1]
    ELSE JsonFail

\* the members of an object from position i on; a repeated key keeps its last value
ParseMembers(txt, i, acc) ==
    LET k == ParseString(txt, i) IN
    IF ~k.ok \/ k.nxt > Len(txt) \/ txt[k.nxt] # ":" THEN JsonFail
    ELSE LET r == ParseValue(txt, k.nxt + 1) IN
         IF ~r.ok \/ r.nxt > Len(txt) THEN JsonFail
         ELSE IF txt[r.nxt] = ","
              THEN ParseMembers(txt, r.nxt + 1, DictSet(acc, k.val.v, r.val))
         ELSE IF txt[r.nxt] = "}"
              THEN [ok |-> TRUE, val |-> Dict(DictSet(acc, k.val.v, r.val)),
                    nxt |-> r.nxt + 1]
         ELSE JsonFail

\* json.loads(txt): [ok, val]; ok is FALSE where json.loads raises JSONDecodeError
json_loads(txt) ==
    LET r == ParseValue(txt, 1) IN
    IF r.ok /\ r.nxt = Len(txt) + 1 THEN [ok |-> TRUE, val |-> r.val]
    ELSE [ok |-> FALSE, val |-> None]

-----------------------------------------------------------------------------
(* The server's side: the JSON text of a value (strings, null, arrays and  *)
(* objects), as the service writes its envelopes.                          *)

RECURSIVE Dumps(_)
RECURSIVE DumpsItems(_)
RECURSIVE DumpsElems(_)

Dumps(x) ==
    CASE x.t = "str" -> <<"\"">> \o x.v \o <<"\"">>
      [] x.t = "None" -> <<"null">>
      [] x.t = "list" -> <<"[">> \o DumpsElems(x.v) \o <<"]">>
      [] x.t = "dict" -> <<"{">> \o DumpsItems(x.v) \o <<"}">>

DumpsElems(s) ==
    IF s = <<>> THEN <<>>
    ELSE IF Len(s) = 1 THEN Dumps(s[1])
    ELSE Dumps(s[1]) \o <<",">> \o DumpsElems(Tail(s))

DumpsItems(d) ==
    IF d = <<>> THEN <<>>
    ELSE LET one == <<"\"">> \o d[1][1] \o <<"\"", ":">> \o Dumps(d[1][2]) IN
         IF Len(d) = 1 THEN one ELSE one \o <<",">> \o DumpsItems(Tail(d))

-----------------------------------------------------------------------------
(* urllib.parse.quote_plus and urlencode(query, doseq=True) *)

\* quote_plus of one character: a space becomes '+', a character outside
\* the unreserved set its percent-escape; a word is a run of unreserved ones.
QuoteChar(c) ==
    CASE c = " " -> <<"+">>
      [] c = "," -> <<"%", "2C">>
      [] c = "&" -> <<"%", "26">>
      [] c = "=" -> <<"%", "3D">>
      [] c = "+" -> <<"%", "2B">>
      [] c = "%" -> <<"%", "25">>
      [] c = ":" -> <<"%", "3A">>
      [] c = "#" -> <<"%", "23">>
      [] OTHER -> <<c>>

quote_plus(txt) == Concat([i \in 1..Len(txt) |-> QuoteChar(txt[i])])

\* the members an iteration over x yields (a dict yields its keys)
Elements(x) ==
    IF x.t = "dict" THEN [i \in 1..Len(x.v) |-> Str(x.v[i][1])] ELSE x.v

\* the key=value pairs urlencode emits for one item of the query
PairsOf(k, x) ==
    IF x.t = "str" THEN <<quote_plus(k) \o <<"=">> \o quote_plus(x.v)>>
    ELSE IF x.t \in {"list", "dict"}
         THEN [i \in 1..Len(x.v) |->
                  quote_plus(k) \o <<"=">> \o quote_plus(PyStr(Elements(x)[i]))]
    ELSE <<quote_plus(k) \o <<"=">> \o quote_plus(PyStr(x))>>

urlencode(query) ==
    Join(<<"&">>, Concat([i \in 1..Len(query) |-> PairsOf(query[i][1], query[i][2])]))

-----------------------------------------------------------------------------
(* BaseQuery._make_request_url *)

\* A faulty loop body that leaves every value as it is, so that urlencode
\* repeats the key of a list value (C4 must fail with it).
JoinValueSkipped(x) == x

\* The body of the loop over the merged parameters: a value that is not a
\* str and can be iterated becomes its members, string-converted and joined
\* with ','; any exception (the assert on a str, the TypeError of a value
\* that cannot be iterated) leaves the value as it is.
JoinValue(x) ==
    IF x.t \in {"list", "dict"}
    THEN Str(Join(<<",">>, [i \in 1..Len(x.v) |-> PyStr(Elements(x)[i])]))
    ELSE x

\* A faulty merge that applies the caller's parameters last, so that they
\* override the filter and the format (C3 must fail with it).
MergeParamsCallerLast(kwargs, filter, fmt) == DictUpdate(DictUpdate(fmt, filter), kwargs)

\* kwargs.update(self.major_filter); kwargs.update(self._format)
MergeParams(kwargs, filter, fmt) == DictUpdate(DictUpdate(kwargs, filter), fmt)

\* the parameter set handed to urlencode
MergedParams(kwargs, filter, fmt) ==
    LET m == MergeParams(kwargs, filter, fmt) IN
    [i \in 1..Len(m) |-> <<m[i][1], JoinValue(m[i][2])>>]

_make_request_url(url, kwargs, filter, fmt) ==
    url \o urlencode(MergedParams(kwargs, filter, fmt))

-----------------------------------------------------------------------------
(* Subscription and iteration, with the exception each raises.  A result   *)
(* is [err, val]; err is "none" when the expression evaluates.             *)

Ok(x) == [err |-> "none", val |-> x]

Raise(e) == [err |-> e, val |-> None]

\* x[k] for a str key k
GetKey(x, k) ==
    IF x.t = "dict"
    THEN IF DictHas(x.v, k) THEN Ok(DictGet(x.v, k)) ELSE Raise("KeyError")
    ELSE Raise("TypeError")

\* x[n] for an int index n >= 0 (no dict of the model has an int key)
GetIndex(x, n) ==
    IF x.t = "list"
    THEN IF n < Len(x.v) THEN Ok(x.v[n + 1]) ELSE Raise("IndexError")
    ELSE IF x.t = "str"
         THEN IF n < Len(x.v) THEN Ok(Str(<<x.v[n + 1]>>)) ELSE Raise("IndexError")
    ELSE IF x.t = "dict" THEN Raise("KeyError")
    ELSE Raise("TypeError")

Key(k) == [key |-> TRUE, k |-> <<k>>, n |-> 0]

Idx(n) == [key |-> FALSE, k |-> <<>>, n |-> n]

RECURSIVE GetPath(_, _)
\* x[p1][p2]...: the first subscription that raises ends the evaluation
GetPath(x, path) ==
    IF path = <<>> THEN Ok(x)
    ELSE LET r == IF Head(path).key THEN GetKey(x, Head(path).k)
                  ELSE GetIndex(x, Head(path).n) IN
         IF r.err # "none" THEN r ELSE GetPath(r.val, Tail(path))

\* `for e in x`: the members, or the TypeError of a value that is not iterable
Iter(x) ==
    IF x.t \in {"list", "dict"} THEN Ok(List(Elements(x)))
    ELSE IF x.t = "str" THEN Ok(List([i \in 1..Len(x.v) |-> Str(<<x.v[i]>>)]))
    ELSE Raise("TypeError")

\* the first result of rs that raised, or Ok(build) when none did
FirstError(rs, build) ==
    IF \E i \in 1..Len(rs) : rs[i].err # "none"
    THEN Raise(rs[CHOOSE i \in 1..Len(rs) :
                    /\ rs[i].err # "none"
                    /\ \A j \in 1..(i - 1) : rs[j].err = "none"].err)
    ELSE Ok(build)

-----------------------------------------------------------------------------
(* SitesQuery.get_data, lines 190-209: the parse of the rdb text *)

\* A faulty header test: only the column-name line is taken as header
\* (C5 must fail with it).
IsHeaderRowFirstOnly(n) == n < 1

\* `if n <3:` the first three non-comment lines are header rows
IsHeaderRow(n) == n < 3

RECURSIVE ScanLines(_, _)
\* the loop over raw_data.split('\n'); st is [info, header, data, n]
ScanLines(lines, st) ==
    IF lines = <<>> THEN st
    ELSE LET l == Head(lines) IN
         ScanLines(Tail(lines),
            IF Len(l) > 0
            THEN IF l[1] = "#"
                 THEN [st EXCEPT !.info = st.info \o l \o <<"\n">>]
                 ELSE IF IsHeaderRow(st.n)
                      THEN [st EXCEPT !.header = Append(st.header, Split(l, "\t")),
                                      !.n = st.n + 1]
                      ELSE [st EXCEPT !.data = Append(st.data, Split(l, "\t"))]
            ELSE st)

RECURSIVE RowItems(_, _, _, _)
\* {header[0][x]: y[x] for x in range(len(header[0]))}, from x = i on
RowItems(cols, y, i, acc) ==
    IF i > Len(cols) THEN acc
    ELSE RowItems(cols, y, i + 1, DictSet(acc, cols[i], Str(y[i])))

\* one row of the comprehension: y[x] raises IndexError past the row's end
RowRecord(cols, y) ==
    IF Len(y) < Len(cols) THEN Raise("IndexError")
    ELSE Ok(Dict(RowItems(cols, y, 1, <<>>)))

\* the value get_data assigns to self.data, or the exception of the parse
ParseRdb(raw) ==
    LET st == ScanLines(Split(raw, "\n"),
                        [info |-> <<>>, header |-> <<>>, data |-> <<>>, n |-> 0])
        rows == [i \in 1..Len(st.data) |-> RowRecord(st.header[1], st.data[i])]
    IN  FirstError(rows,
            Dict(<< <<<<"data">>, List([i \in 1..Len(rows) |-> rows[i].val])>>,
                    <<<<"info">>, Str(st.info)>> >>))

\* [s['site_no'] for s in self.data['data']]
SiteIds(d) ==
    LET rows == GetPath(d, <<Key("data")>>).val.v
        ids == [i \in 1..Len(rows) |-> GetKey(rows[i], <<"site_no">>)]
    IN  FirstError(ids, List([i \in 1..Len(ids) |-> ids[i].val]))

-----------------------------------------------------------------------------
(* DataBySites.make_core_data, lines 266-282 *)

\* {x['qualifierCode']: x['qualifierDescription'] for x in ts['values'][0]['qualifier']}
\* (the qualifier codes of the modelled responses are strings)
QualCodes(ts) ==
    LET q == GetPath(ts, <<Key("values"), Idx(0), Key("qualifier")>>)
        it == IF q.err # "none" THEN q ELSE Iter(q.val)
    IN  IF it.err # "none" THEN it
        ELSE LET n == Len(it.val.v)
                 ks == [i \in 1..n |-> GetKey(it.val.v[i], <<"qualifierCode">>)]
                 ds == [i \in 1..n |-> GetKey(it.val.v[i], <<"qualifierDescription">>)]
                 both == [i \in 1..(2 * n) |->
                            IF i % 2 = 1 THEN ks[(i + 1) \div 2] ELSE ds[i \div 2]]
                 pairs == [i \in 1..n |-> <<ks[i].val.v, ds[i].val>>]
             IN  FirstError(both, Dict(DictUpdate(<<>>, pairs)))

\* the dict appended for one time series; its keyword arguments are
\* evaluated in the order written
CoreRecord(ts) ==
    LET f == <<
            GetPath(ts, <<Key("sourceInfo"), Key("geoLocation"), Key("geogLocation")>>),
            GetPath(ts, <<Key("sourceInfo"), Key("siteName")>>),
            GetPath(ts, <<Key("sourceInfo"), Key("siteCode"), Idx(0), Key("value")>>),
            GetPath(ts, <<Key("variable"), Key("unit"), Key("unitCode")>>),
            GetPath(ts, <<Key("variable"), Key("variableDescription")>>),
            QualCodes(ts),
            GetPath(ts, <<Key("values"), Idx(0), Key("value")>>),
            GetPath(ts, <<Key("sourceInfo"), Key("timeZoneInfo"),
                          Key("defaultTimeZone"), Key("zoneOffset")>>) >>
    IN  FirstError(f,
            Dict(<< <<<<"location">>, f[1].val>>, <<<<"name">>, f[2].val>>,
                    <<<<"site">>, f[3].val>>, <<<<"unit">>, f[4].val>>,
                    <<<<"description">>, f[5].val>>, <<<<"qual_codes">>, f[6].val>>,
                    <<<<"data">>, f[7].val>>, <<<<"time_zone">>, f[8].val>> >>))

\* the list make_core_data builds from self.data, or the exception it raises
CoreData(d) ==
    LET series == GetPath(d, <<Key("value"), Key("timeSeries")>>)
        it == IF series.err # "none" THEN series ELSE Iter(series.val)
    IN  IF it.err # "none" THEN it
        ELSE LET recs == [i \in 1..Len(it.val.v) |-> CoreRecord(it.val.v[i])]
             IN  FirstError(recs, List([i \in 1..Len(recs) |-> recs[i].val]))

-----------------------------------------------------------------------------
(* The inputs: major filters, keyword arguments and server responses *)

T(w) == Str(<<w>>)

Item(k, x) == <<<<k>>, x>>

SiteList == List(<<T("01646500"), T("01647000")>>)

OneSite == List(<<T("01646500")>>)

Filters == {
    <<>>,
    <<Item("sites", SiteList)>>,
    <<Item("stateCd", T("ny"))>>,
    <<Item("siteName", T("x"))>>,
    <<Item("countyCd", List(<<Int(51059), Int(51061)>>)), Item("format", T("xml"))>>,
    <<Item("period", T("P7D")), Item("sites", OneSite)>> }

Kwargs == {
    <<>>,
    <<Item("format", T("xml")), Item("parameterCd", List(<<T("a"), T("b"), T("c")>>)),
      Item("sites", List(<<T("9"), Int(60)>>)), Item("stateCd", T("md")),
      Item("siteName", Str(<<"ROCK", " ", "CREEK", ",", "MD">>))>>,
    <<Item("countyCd", List(<<>>)), Item("huc", Int(2)), Item("siteType", T("GW"))>> }

Services == {"dv", "iv"}

\* one time series of the JSON envelope
Series(site, name, quals, obs) ==
    Dict(<<
        Item("sourceInfo", Dict(<<
            Item("siteName", T(name)),
            Item("siteCode", List(<<Dict(<<Item("value", T(site))>>)>>)),
            Item("timeZoneInfo", Dict(<<Item("defaultTimeZone",
                Dict(<<Item("zoneOffset", Str(<<"-05", ":", "00">>))>>))>>)),
            Item("geoLocation", Dict(<<Item("geogLocation",
                Dict(<<Item("latitude", T("38.9"))>>))>>)) >>)),
        Item("variable", Dict(<<
            Item("variableDescription", T("Discharge")),
            Item("unit", Dict(<<Item("unitCode", T("ft3/s"))>>)) >>)),
        Item("values", List(<<Dict(<<
            Item("value", List(obs)),
            Item("qualifier", List(quals)) >>)>>)) >>)

Qual(c, d) == Dict(<<Item("qualifierCode", T(c)), Item("qualifierDescription", T(d))>>)

Obs(v, d) == Dict(<<Item("value", T(v)), Item("dateTime", T(d))>>)

Envelope(series) == Dict(<<Item("value", Dict(<<Item("timeSeries", List(series))>>))>>)

SeriesA ==
    Series("01646500", "POTOMAC", <<Qual("A", "Approved"), Qual("P", "Provisional")>>,
           <<Obs("100", "d1"), Obs("110", "d2")>>)

SeriesB == Series("01647000", "ROCK CREEK", <<Qual("A", "Approved")>>, <<Obs("7", "d1")>>)

\* the JSON values the server may send: well-formed envelopes, and values
\* that lack value.timeSeries or a field of a series
JsonValues == {
    Envelope(<<SeriesA>>),
    Envelope(<<SeriesB, SeriesA>>),
    Envelope(<<>>),
    Envelope(<<Dict(<<Item("sourceInfo", Dict(<<>>))>>)>>),
    Dict(<<>>),
    Dict(<<Item("value", Dict(<<Item("queryInfo", T("q"))>>))>>),
    None }

JsonBodies == {Dumps(x) : x \in JsonValues} \cup {<<>>}

Lines(ls) == Join(<<"\n">>, ls)

Comment1 == <<"#", " ", "US", " ", "Geological", " ", "Survey">>

Comment2 == <<"#", "retrieved">>

Header == <<"site_no", "\t", "station_nm">>

Widths == <<"15s", "\t", "50s">>

Third == <<"-", "\t", "-">>

Row1 == <<"01646500", "\t", "POTOMAC", " ", "RIVER">>

Row2 == <<"01647000", "\t", "ROCK", " ", "CREEK">>

ShortRow == <<"01648000">>

LongRow == <<"01649000", "\t", "ANACOSTIA", "\t", "MD">>

RdbBodies == {
    <<>>,
    Lines(<<Comment1, Comment2, Header, Row1>>),
    Lines(<<Comment1, Comment2, Header, Widths, Third, Row1>>),
    Lines(<<Comment1, Header, Widths, <<>>, Third, Row1, Comment2, Row2, LongRow, <<>>>>),
    Lines(<<Header, Widths, Third, Row1, ShortRow>>),
    Lines(<<<<"agency_cd", "\t", "station_nm">>, Widths, Third, Row1>>),
    Lines(<<Comment1, Comment2, <<>>>>) }

NoResponse == [ok |-> FALSE, body |-> <<>>]

\* what urlopen does: it raises (ok is FALSE), or delivers a decoded body
Responses(fmt) ==
    {NoResponse}
    \cup {[ok |-> TRUE, body |-> b] :
            b \in IF fmt = <<"rdb">> THEN RdbBodies ELSE JsonBodies}

\* the answers a call may get: the server is asked only when the call fetches
Answers(fetching, fmt) == IF fetching THEN Responses(fmt) ELSE {NoResponse}

-----------------------------------------------------------------------------
(* The query object *)

\* bound on the number of method calls made on one object
MaxCalls == 4

\* bound on the number of requests one object issues
MaxFetches == 2

allowed_filters == <<<<"sites">>, <<"stateCd">>, <<"huc">>, <<"bBox">>, <<"countyCd">>>>

FilterMessage ==
    <<"major_filter must be one of: ">> \o Join(<<",", " ">>, allowed_filters)

IsAllowed(k) == \E i \in 1..Len(allowed_filters) : allowed_filters[i] = k

\* BaseQuery.__init__, lines 43-46: the exception the filter check raises
FilterCheck(mf) ==
    IF Len(mf) = 0 THEN "IndexError"
    ELSE IF IsAllowed(DictKeys(mf)[1]) THEN "none"
    ELSE "ValueError"

BaseUrl(service) == <<"https://waterservices.usgs.gov/nwis/", service, "/?">>

\* the record of a call: its name and keyword arguments, the requests it
\* issued, the exception it raised (with its message) and what it returned
Call(op, kw, issued, err, ret) ==
    [op |-> op, kwargs |-> kw, issued |-> issued, err |-> err, ret |-> ret,
     msg |-> IF err = "ValueError" THEN FilterMessage ELSE <<>>]

Init ==
    /\ cls = "none"
    /\ major_filter = Unset
    /\ _format = Unset
    /\ base_url = Unset
    /\ data = Unset
    /\ raw_data = Unset
    /\ request_url = Unset
    /\ sites = Unset
    /\ core_data = Unset
    /\ last = Call("none", <<>>, 0, "none", None)
    /\ fetches = 0
    /\ delivered = 0
    /\ invalidated = FALSE
    /\ calls = 0
    /\ core_calls = <<>>

\* A faulty _get_raw_data that stores what it has read (nothing) when the
\* request fails (C13 must fail with it).
_get_raw_data_partial(url, mf, fmt, raw, kwargs, resp) ==
    [request_url |-> Str(_make_request_url(url, kwargs, mf, fmt)),
     raw_data |-> Str(resp.body),
     err |-> IF resp.ok THEN "none" ELSE "URLError",
     issued |-> 1,
     fetched |-> IF resp.ok THEN 1 ELSE 0]

\* BaseQuery._get_raw_data on an object with the given attributes, the
\* server answering resp: the new request_url and raw_data, the exception
\* raised, the requests issued and the responses delivered
_get_raw_data(url, mf, fmt, raw, kwargs, resp) ==
    [request_url |-> Str(_make_request_url(url, kwargs, mf, fmt)),
     raw_data |-> IF resp.ok THEN Str(resp.body) ELSE raw,
     err |-> IF resp.ok THEN "none" ELSE "URLError",
     issued |-> 1,
     fetched |-> IF resp.ok THEN 1 ELSE 0]

\* A faulty cache test that fetches on every call
\* (C12 must fail with it).
NeedsFetchAlways(raw) == TRUE

\* `if not self.raw_data:` of get_data
NeedsFetch(raw) == Falsy(raw)

\* lines 68-69 and 187-188: the attributes after the conditional fetch
FetchStep(url, mf, fmt, req, raw, kwargs, resp) ==
    IF NeedsFetch(raw) THEN _get_raw_data(url, mf, fmt, raw, kwargs, resp)
    ELSE [request_url |-> req, raw_data |-> raw, err |-> "none",
          issued |-> 0, fetched |-> 0]

\* line 71 and lines 190-207: the parse of the cached text
ParseRaw(c, raw) ==
    IF c = "SitesQuery" THEN ParseRdb(raw.v)
    ELSE LET r == json_loads(raw.v) IN
         IF r.ok THEN Ok(r.val) ELSE Raise("JSONDecodeError")

\* BaseQuery.get_data / SitesQuery.get_data: the attributes get_data
\* leaves, the exception it raises and the value it returns
get_data(c, url, mf, fmt, req, raw, dat, kwargs, resp) ==
    LET f == FetchStep(url, mf, fmt, req, raw, kwargs, resp)
        p == IF f.err = "none" THEN ParseRaw(c, f.raw_data) ELSE Raise(f.err)
    IN  [request_url |-> f.request_url,
         raw_data |-> f.raw_data,
         issued |-> f.issued,
         fetched |-> f.fetched,
         data |-> IF p.err = "none" THEN p.val ELSE dat,
         err |-> p.err,
         ret |-> p.val]

-----------------------------------------------------------------------------
(* Construction *)

NoObject(op, kw, issued, err) ==
    /\ cls' = "none"
    /\ last' = Call(op, kw, issued, err, None)
    /\ UNCHANGED <<major_filter, _format, base_url, data, raw_data, request_url,
                   sites, core_data, fetches, delivered, invalidated, calls,
                   core_calls>>

\* BaseQuery(major_filter, service, data_format), lines 38-50
NewBaseQuery ==
    /\ cls = "none" /\ last.op = "none"
    /\ \E mf \in Filters, service \in {"dv"} :
        LET e == FilterCheck(mf) IN
        IF e # "none" THEN NoObject("BaseQuery", <<>>, 0, e)
        ELSE /\ cls' = "BaseQuery"
             /\ major_filter' = mf
             /\ _format' = <<Item("format", T("json"))>>
             /\ base_url' = BaseUrl(service)
             /\ data' = None
             /\ raw_data' = None
             /\ last' = Call("BaseQuery", <<>>, 0, "none", None)
             /\ UNCHANGED <<request_url, sites, core_data, fetches, delivered,
                            invalidated, calls, core_calls>>

\* SitesQuery(major_filter), lines 165-168
NewSitesQuery ==
    /\ cls = "none" /\ last.op = "none"
    /\ \E mf \in Filters :
        LET e == FilterCheck(mf) IN
        IF e # "none" THEN NoObject("SitesQuery", <<>>, 0, e)
        ELSE /\ cls' = "SitesQuery"
             /\ major_filter' = mf
             /\ _format' = <<Item("format", T("rdb"))>>
             /\ base_url' = BaseUrl("site")
             /\ data' = None
             /\ raw_data' = None
             /\ sites' = None
             /\ last' = Call("SitesQuery", <<>>, 0, "none", None)
             /\ UNCHANGED <<request_url, core_data, fetches, delivered,
                            invalidated, calls, core_calls>>

\* DataBySites(sites, service, **kwargs), lines 246-251: the constructor
\* calls get_data, so an exception of the fetch or the parse leaves no object
NewDataBySites ==
    /\ cls = "none" /\ last.op = "none"
    /\ \E sl \in {SiteList}, service \in Services, kw \in Kwargs,
          resp \in Responses(<<"json">>) :
        LET mf == <<Item("sites", sl)>>
            fmt == <<Item("format", T("json"))>>
            e == FilterCheck(mf)
        IN  \E g \in {get_data("DataBySites", BaseUrl(service), mf, fmt, Unset,
                                None, None, kw, resp)} :
            IF e # "none" THEN NoObject("DataBySites", kw, 0, e)
            ELSE IF g.err # "none" THEN NoObject("DataBySites", kw, g.issued, g.err)
            ELSE /\ cls' = "DataBySites"
                 /\ major_filter' = mf
                 /\ _format' = fmt
                 /\ base_url' = BaseUrl(service)
                 /\ request_url' = g.request_url
                 /\ raw_data' = g.raw_data
                 /\ data' = g.ret
                 /\ core_data' = None
                 /\ fetches' = g.issued
                 /\ delivered' = g.fetched
                 /\ last' = Call("DataBySites", kw, g.issued, "none", g.ret)
                 /\ UNCHANGED <<sites, invalidated, calls, core_calls>>

-----------------------------------------------------------------------------
(* Method calls *)

\* obj.get_data(**kwargs), the server answering resp if asked
GetData ==
    /\ cls # "none"
    /\ calls < MaxCalls
    /\ NeedsFetch(raw_data) => fetches < MaxFetches
    /\ \E kw \in Kwargs,
          resp \in Answers(NeedsFetch(raw_data), DictGet(_format, <<"format">>).v) :
        \E g \in {get_data(cls, base_url, major_filter, _format, request_url,
                          raw_data, data, kw, resp)} :
            /\ request_url' = g.request_url
            /\ raw_data' = g.raw_data
            /\ data' = g.data
            /\ fetches' = fetches + g.issued
            /\ delivered' = delivered + g.fetched
            /\ last' = Call("get_data", kw, g.issued, g.err, g.ret)
    /\ calls' = calls + 1
    /\ UNCHANGED <<cls, major_filter, _format, base_url, sites, core_data,
                   invalidated, core_calls>>

\* A faulty test that makes get_site_ids call get_data every time
\* (C6 must fail with it).
NeedsDataAlways(dat) == TRUE

\* `if not self.data:` of get_site_ids
NeedsData(dat) == Falsy(dat)

\* SitesQuery.get_site_ids(**kwargs), lines 225-228
GetSiteIds ==
    /\ cls = "SitesQuery"
    /\ calls < MaxCalls
    /\ NeedsData(data) /\ NeedsFetch(raw_data) => fetches < MaxFetches
    /\ \E kw \in Kwargs,
          resp \in Answers(NeedsData(data) /\ NeedsFetch(raw_data), <<"rdb">>) :
        \E g \in {IF NeedsData(data)
                   THEN get_data(cls, base_url, major_filter, _format, request_url,
                                 raw_data, data, kw, resp)
                   ELSE [request_url |-> request_url, raw_data |-> raw_data,
                         issued |-> 0, fetched |-> 0, data |-> data,
                         err |-> "none", ret |-> data]} :
        \E ids \in {IF g.err = "none" THEN SiteIds(g.data) ELSE Raise(g.err)} :
            /\ request_url' = g.request_url
            /\ raw_data' = g.raw_data
            /\ data' = g.data
            /\ fetches' = fetches + g.issued
            /\ delivered' = delivered + g.fetched
            /\ sites' = IF ids.err = "none" THEN ids.val ELSE sites
            /\ last' = Call("get_site_ids", kw, g.issued, ids.err, ids.val)
    /\ calls' = calls + 1
    /\ UNCHANGED <<cls, major_filter, _format, base_url, core_data, invalidated,
                   core_calls>>

\* A faulty make_core_data that reuses an earlier result when there is one
\* (C8 must fail with it).
make_core_data_cached(dat, core) == IF core # None THEN Ok(core) ELSE CoreData(dat)

\* DataBySites.make_core_data(), lines 266-282: the list is rebuilt from
\* self.data on every call, self.core_data is not read
make_core_data(dat, core) == CoreData(dat)

MakeCoreData ==
    /\ cls = "DataBySites"
    /\ calls < MaxCalls
    /\ \E r \in {make_core_data(data, core_data)} :
        /\ core_data' = IF r.err = "none" THEN r.val ELSE core_data
        /\ last' = Call("make_core_data", <<>>, 0, r.err, r.val)
        /\ core_calls' = <<[data |-> data, out |-> r]>>
                          \o (IF core_calls = <<>> THEN <<>> ELSE <<core_calls[1]>>)
    /\ calls' = calls + 1
    /\ UNCHANGED <<cls, major_filter, _format, base_url, data, raw_data,
                   request_url, sites, fetches, delivered, invalidated>>

\* The caller invalidates the cache: raw_data is a public attribute and
\* resetting it to its constructed value is the only invalidation there is.
Invalidate ==
    /\ cls # "none"
    /\ calls < MaxCalls
    /\ raw_data # None
    /\ raw_data' = None
    /\ invalidated' = TRUE
    /\ last' = Call("invalidate", <<>>, 0, "none", None)
    /\ calls' = calls + 1
    /\ UNCHANGED <<cls, major_filter, _format, base_url, data, request_url,
                   sites, core_data, fetches, delivered, core_calls>>

Next ==
    \/ NewBaseQuery
    \/ NewSitesQuery
    \/ NewDataBySites
    \/ GetData
    \/ GetSiteIds
    \/ MakeCoreData
    \/ Invalidate

Spec == Init /\ [][Next]_vars

-----------------------------------------------------------------------------
(* Reading a request URL back: the decoded key/value pairs of its query *)

HexChar(h) ==
    CASE h = "2C" -> ","
      [] h = "26" -> "&"
      [] h = "3D" -> "="
      [] h = "2B" -> "+"
      [] h = "25" -> "%"
      [] h = "3A" -> ":"
      [] h = "23" -> "#"

RECURSIVE Unquote(_)
\* the text a form-encoded text stands for: '+' is a space, %XX a character
Unquote(txt) ==
    IF txt = <<>> THEN <<>>
    ELSE IF txt[1] = "%" THEN <<HexChar(txt[2])>> \o Unquote(Tail(Tail(txt)))
    ELSE IF txt[1] = "+" THEN <<" ">> \o Unquote(Tail(txt))
    ELSE <<txt[1]>> \o Unquote(Tail(txt))

\* the query string of the object's request URL
QueryString == SubSeq(request_url.v, Len(base_url) + 1, Len(request_url.v))

\* its pairs, in order, each split at the first '=' and decoded
QueryPairs ==
    LET ps == Split(QueryString, "&") IN
    [i \in 1..Len(ps) |->
        LET kv == Split(ps[i], "=") IN
        <<Unquote(kv[1]), Unquote(Join(<<"=">>, Tail(kv)))>>]

\* the values the query gives for key k, in order
QueryValues(k) ==
    LET ps == QueryPairs
        at == {i \in 1..Len(ps) : ps[i][1] = k}
        RECURSIVE Pick(_)
        Pick(i) == IF i > Len(ps) THEN <<>>
                   ELSE (IF i \in at THEN <<ps[i][2]>> ELSE <<>>) \o Pick(i + 1)
    IN  Pick(1)

\* the text a parameter value is to be sent as: the members of a list,
\* string-converted and joined with ',' in order; a scalar as str() gives it
Rendered(x) ==
    IF x.t = "list" THEN Join(<<",">>, [i \in 1..Len(x.v) |-> PyStr(x.v[i])])
    ELSE PyStr(x)

FormatValue == DictGet(_format, <<"format">>)

-----------------------------------------------------------------------------
(* The claims *)

\* C1: with no cache invalidation, at most one response is ever fetched by
\* a query object, whatever the server returns: once a fetch has succeeded,
\* every later get_data / get_site_ids call reuses the cached raw text.
C1_AtMostOneFetch == (cls # "none" /\ ~invalidated) => delivered <= 1

\* C2: a query is constructed only from a major_filter with exactly one key,
\* a recognized one; any other major_filter (zero keys, two or more keys)
\* fails with the ValueError that names the allowed filters, and no request
\* URL is built for it.
C2_ExactlyOneRecognizedFilter ==
    /\ cls # "none" => Len(major_filter) = 1 /\ IsAllowed(major_filter[1][1])
    /\ (cls = "none" /\ last.op \in {"BaseQuery", "SitesQuery"}) =>
          /\ last.err = "ValueError"
          /\ last.msg = FilterMessage
          /\ request_url = Unset

\* C3: in every request URL the object builds, the 'format' key carries the
\* format fixed at construction and the major-filter key carries the filter
\* value fixed at construction, each exactly once, whatever keyword
\* arguments the caller passed (also under the same keys).
C3_FilterAndFormatWin ==
    (cls # "none" /\ request_url # Unset) =>
        /\ QueryValues(<<"format">>) = <<FormatValue.v>>
        /\ \A i \in 1..Len(major_filter) :
              major_filter[i][1] # <<"format">> =>
                 QueryValues(major_filter[i][1]) = <<Rendered(major_filter[i][2])>>

\* a URL was built from keyword arguments that carry 'format' and the filter
\* key, both with values other than the constructed ones
C3_Witness ==
    /\ cls # "none" /\ last.issued = 1
    /\ DictHas(last.kwargs, <<"format">>)
    /\ DictGet(last.kwargs, <<"format">>) # FormatValue
    /\ DictHas(last.kwargs, major_filter[1][1])
    /\ DictGet(last.kwargs, major_filter[1][1]) # major_filter[1][2]

\* the value the merged parameter set holds for key k in the call just made
Effective(k) ==
    IF k = <<"format">> THEN FormatValue
    ELSE IF DictHas(major_filter, k) THEN DictGet(major_filter, k)
    ELSE DictGet(last.kwargs, k)

ParamKeys ==
    {last.kwargs[i][1] : i \in 1..Len(last.kwargs)}
    \cup {major_filter[i][1] : i \in 1..Len(major_filter)}
    \cup {<<"format">>}

\* C4: the URL a call builds holds, for every merged parameter whose value
\* is a list, exactly one key=value pair, its (form-decoded) value being the
\* members string-converted and joined with ',' in order; and for every
\* parameter whose value is a string exactly one pair with that string.
C4_ListJoinedStringKept ==
    (cls # "none" /\ last.issued = 1) =>
        \A k \in ParamKeys :
            Effective(k).t \in {"list", "str"} =>
                QueryValues(k) = <<Rendered(Effective(k))>>

\* a URL was built from a three-member list and from a string of several
\* characters, a ',' and a space among them
C4_Witness ==
    /\ cls # "none" /\ last.issued = 1
    /\ \E k \in ParamKeys : Effective(k).t = "list" /\ Len(Effective(k).v) = 3
    /\ \E k \in ParamKeys :
          /\ Effective(k).t = "str"
          /\ \E i, j \in 1..Len(Effective(k).v) :
                Effective(k).v[i] = "," /\ Effective(k).v[j] = " "

\* the tabular text of the claim: two comment lines, the column-name line
\* and one data line
OneHeaderBody == Lines(<<Comment1, Comment2, Header, Row1>>)

\* the same with the two further header lines the service sends
ThreeHeaderBody == Lines(<<Comment1, Comment2, Header, Widths, Third, Row1>>)

ParsedSites(rows) ==
    Dict(<<Item("data", List(rows)),
           Item("info", Str(Comment1 \o <<"\n">> \o Comment2 \o <<"\n">>))>>)

PotomacRow ==
    Dict(<<Item("site_no", T("01646500")),
           Item("station_nm", Str(<<"POTOMAC", " ", "RIVER">>))>>)

SitesParsed(body) ==
    /\ cls = "SitesQuery"
    /\ raw_data = Str(body)
    /\ last.op = "get_data"
    /\ last.err = "none"

\* C5 (as claimed): the parse of two comment lines, one header line with the
\* columns site_no and station_nm and one data line has the two comment
\* lines as info and exactly one row, mapping the columns to the two cells.
C5_OneHeaderLine ==
    SitesParsed(OneHeaderBody) => data = ParsedSites(<<PotomacRow>>)

\* C5 (amended): that result is the parse of the text with three header
\* lines before the data line; with the single header line the data line is
\* taken as the second header row and the parse has no row.
C5_ThreeHeaderLines ==
    /\ SitesParsed(ThreeHeaderBody) => data = ParsedSites(<<PotomacRow>>)
    /\ SitesParsed(OneHeaderBody) => data = ParsedSites(<<>>)

C5_Witness == SitesParsed(ThreeHeaderBody) /\ last.ret = data /\ last.issued = 1

\* the rows of the parsed site data
SiteRows == DictGet(data.v, <<"data">>).v

\* C6: get_site_ids calls get_data only when the object holds no parsed
\* data: with data cached it issues no request and leaves data and raw_data
\* alone; and it returns (and stores in sites) the site_no of every parsed
\* row, one per row, in row order.
C6_SiteIdsLazyInOrder ==
    /\ [](cls = "SitesQuery" /\ last.op = "get_site_ids" /\ last.err = "none" =>
            /\ last.ret = List([i \in 1..Len(SiteRows) |->
                                  DictGet(SiteRows[i].v, <<"site_no">>)])
            /\ sites = last.ret)
    /\ [][(last'.op = "get_site_ids" /\ calls' = calls + 1 /\ ~Falsy(data)) =>
            (fetches' = fetches /\ data' = data /\ raw_data' = raw_data)]_vars

\* get_site_ids returned the ids of several rows without a request, on an
\* object that had fetched before
C6_Witness ==
    /\ cls = "SitesQuery" /\ last.op = "get_site_ids" /\ last.err = "none"
    /\ last.issued = 0 /\ fetches = 1 /\ calls >= 2
    /\ Len(last.ret.v) >= 3

Has(x, k) == x.t = "dict" /\ DictHas(x.v, <<k>>)

\* the value of x under key k, None where x has no such key
At(x, k) == IF Has(x, k) THEN DictGet(x.v, <<k>>) ELSE None

\* the first member of the list x, None where there is none
First(x) == IF x.t = "list" /\ Len(x.v) > 0 THEN x.v[1] ELSE None

\* the members of x, none where x is not a list
Members(x) == IF x.t = "list" THEN x.v ELSE <<>>

\* the parsed response carries value.timeSeries
HasEnvelope(d) == Has(d, "value") /\ Has(At(d, "value"), "timeSeries")

\* C7: a response without value.timeSeries is rejected as malformed:
\* get_data does not hand it out as the data of a DataBySites object, and
\* make_core_data on it ends in a malformed-response error.
C7_MalformedRejected ==
    cls = "DataBySites" =>
        /\ HasEnvelope(data)
        /\ last.op = "make_core_data" /\ ~HasEnvelope(core_calls[1].data) =>
              last.err = "MalformedResponseError"

\* the core record of one time series, field by field
CoreOf(ts) ==
    LET src == At(ts, "sourceInfo")
        block == First(At(ts, "values"))
        q == Members(At(block, "qualifier"))
    IN  Dict(<<
            Item("location", At(At(src, "geoLocation"), "geogLocation")),
            Item("name", At(src, "siteName")),
            Item("site", At(First(At(src, "siteCode")), "value")),
            Item("unit", At(At(At(ts, "variable"), "unit"), "unitCode")),
            Item("description", At(At(ts, "variable"), "variableDescription")),
            Item("qual_codes", Dict([i \in 1..Len(q) |->
                <<At(q[i], "qualifierCode").v, At(q[i], "qualifierDescription")>>])),
            Item("data", At(block, "value")),
            Item("time_zone",
                 At(At(At(src, "timeZoneInfo"), "defaultTimeZone"), "zoneOffset")) >>)

\* C8: make_core_data leaves the parsed data unchanged; two calls on the
\* same data give the same outcome; and what a call returns (and stores in
\* core_data) is the core record of every series of the data the object
\* holds at that call, in order, also when the data was replaced since an
\* earlier call.
C8_CoreDataRecomputed ==
    /\ [](cls = "DataBySites" /\ last.op = "make_core_data" =>
            /\ (Len(core_calls) = 2 /\ core_calls[2].data = data) =>
                  core_calls[2].out = core_calls[1].out
            /\ last.err = "none" =>
                  HasEnvelope(data) /\
                  LET series == Members(At(At(data, "value"), "timeSeries")) IN
                  /\ last.ret = List([i \in 1..Len(series) |-> CoreOf(series[i])])
                  /\ core_data = last.ret)
    /\ [][(last'.op = "make_core_data" /\ calls' = calls + 1) => data' = data]_vars

\* make_core_data has run twice on the same, non-empty data
C8_Witness ==
    /\ cls = "DataBySites" /\ last.op = "make_core_data" /\ last.err = "none"
    /\ Len(core_calls) = 2 /\ core_calls[2].data = data
    /\ Len(last.ret.v) >= 2

\* C9: after every successful get_data the data attribute is not None, is
\* the value the call returned and is the parse of the cached raw_data.
C9_DataIsParseOfRaw ==
    (cls # "none" /\ last.op = "get_data" /\ last.err = "none") =>
        /\ data # None
        /\ data = last.ret
        /\ data = ParseRaw(cls, raw_data).val

\* C10: no get_data or get_site_ids call on a SitesQuery ends in an
\* IndexError: a data row with fewer cells than the header has columns is
\* handled.
C10_ShortRowHandled ==
    (cls = "SitesQuery" /\ last.op \in {"get_data", "get_site_ids"}) =>
        last.err # "IndexError"

-----------------------------------------------------------------------------
(* The line classes of a tabular text, stated without the scanning loop *)

IsComment(l) == Len(l) > 0 /\ l[1] = "#"

IsContent(l) == Len(l) > 0 /\ l[1] # "#"

\* the '#' lines of a text, in input order
CommentLines(txt) == SelectSeq(Split(txt, "\n"), IsComment)

\* its non-empty lines that are no comments, in input order
ContentLines(txt) == SelectSeq(Split(txt, "\n"), IsContent)

\* every comment line followed by a newline, in input order
InfoOf(txt) ==
    LET c == CommentLines(txt) IN Concat([i \in 1..Len(c) |-> c[i] \o <<"\n">>])

\* the content lines after the third, in input order
DataLines(txt) ==
    LET c == ContentLines(txt) IN
    IF Len(c) > 3 THEN [i \in 1..(Len(c) - 3) |-> c[i + 3]] ELSE <<>>

\* the columns of the first header line
Columns(txt) == Split(ContentLines(txt)[1], "\t")

\* record r is the record of line l: its keys are the columns, in order, and
\* each column maps to the cell of the line at the column's position
IsRecordOf(r, l, cols) ==
    /\ r.t = "dict"
    /\ DictKeys(r.v) = cols
    /\ Len(Split(l, "\t")) >= Len(cols)
    /\ \A j \in 1..Len(cols) : DictGet(r.v, cols[j]) = Str(Split(l, "\t")[j])

\* d is the parse the line classes prescribe for the text
IsParseOf(d, txt) ==
    /\ Has(d, "data") /\ Has(d, "info")
    /\ At(d, "info") = Str(InfoOf(txt))
    /\ Len(Members(At(d, "data"))) = Len(DataLines(txt))
    /\ \A i \in 1..Len(DataLines(txt)) :
          IsRecordOf(Members(At(d, "data"))[i], DataLines(txt)[i], Columns(txt))

\* a get_data call on a SitesQuery got as far as parsing the text it holds
SitesScanned ==
    /\ cls = "SitesQuery"
    /\ last.op = "get_data"
    /\ last.err # "URLError"

\* C11: whenever SitesQuery.get_data parses a text, the call returns, and
\* what it returns and stores has one record for every non-empty,
\* non-comment line after the third, in input order, keyed by the columns of
\* the first such line (the first three give no record), and has as info
\* every '#' line followed by a newline, in input order; empty lines give
\* nothing.
C11_LinesClassified ==
    SitesScanned =>
        /\ last.err = "none"
        /\ last.ret = data
        /\ IsParseOf(data, raw_data.v)

\* the URL the object would request for the keyword arguments kw
UrlFor(kw) == Str(_make_request_url(base_url, kw, major_filter, _format))

\* C12: a get_data call on an object that holds a non-empty raw response
\* issues no request and leaves request_url and raw_data as they are,
\* whatever its keyword arguments; if it returns, it returns (and stores) the
\* parse of that held response.
C12_CachedIgnoresKwargs ==
    [][(cls # "none" /\ ~Falsy(raw_data)
        /\ last'.op = "get_data" /\ calls' = calls + 1) =>
            /\ last'.issued = 0 /\ fetches' = fetches
            /\ request_url' = request_url
            /\ raw_data' = raw_data
            /\ last'.err = "none" =>
                  /\ last'.ret = ParseRaw(cls, raw_data).val
                  /\ data' = last'.ret]_vars

\* get_data returned from the cache, with keyword arguments that would have
\* built another URL than the one the object holds from its fetch
C12_Witness ==
    /\ cls # "none" /\ last.op = "get_data" /\ last.err = "none"
    /\ last.issued = 0 /\ fetches = 1 /\ ~invalidated
    /\ ~Falsy(raw_data)
    /\ last.kwargs # <<>>
    /\ request_url # UrlFor(last.kwargs)
    /\ last.ret = data

\* the step is a get_data call whose request got no response
FetchFailed ==
    /\ cls \in {"BaseQuery", "SitesQuery"}
    /\ last'.op = "get_data" /\ calls' = calls + 1
    /\ fetches' = fetches + 1 /\ delivered' = delivered

\* C13: a get_data call on a BaseQuery or SitesQuery whose request fails
\* raises the error of the request and leaves raw_data and data as they were
\* before the call, with no raw response cached; and a get_data call that
\* follows a failed one issues a request again.
C13_FailedFetchLeavesNoCache ==
    /\ [][FetchFailed =>
            /\ last'.err = "URLError"
            /\ raw_data' = raw_data
            /\ data' = data
            /\ Falsy(raw_data')]_vars
    /\ [][(cls \in {"BaseQuery", "SitesQuery"}
           /\ last.op = "get_data" /\ last.err = "URLError"
           /\ last'.op = "get_data" /\ calls' = calls + 1) =>
                (last'.issued = 1 /\ fetches' = fetches + 1)]_vars

\* a BaseQuery whose first request failed has fetched again in the next
\* get_data call and got its data
C13_Witness ==
    /\ cls = "BaseQuery" /\ ~invalidated
    /\ calls = 2 /\ fetches = 2 /\ delivered = 1
    /\ last.op = "get_data" /\ last.err = "none" /\ last.issued = 1
    /\ ~Falsy(raw_data) /\ data # None

=============================================================================
